---- MODULE Spec2Model ----
(***************************************************************************)
(* The quota refresh scheduler (useQuotaLoader / loadQuota) and the        *)
(* QuotaSection component that drives it.                                  *)
(*                                                                         *)
(* JavaScript runs one continuation at a time: a step of the model is one  *)
(* synchronous stretch of code, from an event (a call, a settled fetch, a  *)
(* click, a render) to the next await.  The only await inside a worker is  *)
(* the fetch; Promise.all and the caller's await resume in microtasks of   *)
(* the step that settles them, so they belong to that step.                *)
(***************************************************************************)
EXTENDS Integers, Sequences, FiniteSets, TLC

\* ---------------------------------------------------------------- bounds
MaxTasks == 2      \* task names are 1..MaxTasks; a list holds at most MaxTasks tasks
MaxCalls == 2      \* loadQuota invocations (accepted or not) per behaviour
MaxRequests == 2   \* valid refresh requests of the operator per behaviour

\* ---------------------------------------------------------------- constants
MAX_REFRESH_CONCURRENCY == 1000
DEFAULT_PAGE_SIZE == 10

Names == 1..MaxTasks

Min(a, b) == IF a < b THEN a ELSE b
Max(a, b) == IF a > b THEN a ELSE b

VARIABLES
  \* useQuotaLoader
  loadingRef,        \* re-entrancy guard
  requestIdRef,      \* generation counter
  runs,              \* the closures of the runs that can still execute code
  quota,             \* the ResultStore: name -> entry
  calls,             \* number of loadQuota invocations so far (history)
  \* QuotaSection
  files,             \* filteredFiles
  filesLoading,      \* the loading prop
  prevFilesLoadingRef,
  pendingQuotaRefreshRef,
  stopRefreshRef,
  refreshProgress,
  refreshModalOpen,
  sectionLoading,    \* pagination loading / loadingScope
  notices,           \* 'refresh stopped' notifications shown (history)
  requests           \* valid handleStartRefresh calls so far and the scope
                     \* and concurrency of the latest of them (history)

loaderVars == <<loadingRef, requestIdRef, runs, quota, calls>>
sectionVars == <<files, filesLoading, prevFilesLoadingRef, pendingQuotaRefreshRef,
                 refreshProgress, refreshModalOpen, notices, requests>>
vars == <<loadingRef, requestIdRef, runs, quota, calls, files, filesLoading,
          prevFilesLoadingRef, pendingQuotaRefreshRef, stopRefreshRef,
          refreshProgress, refreshModalOpen, sectionLoading, notices, requests>>

\* ---------------------------------------------------------------- values
Null == [kind |-> "null"]

\* A concurrency option as a JavaScript number (or undefined).
Num(n, d) == [kind |-> "num", num |-> n, den |-> d]
Special(k) == [kind |-> k, num |-> 0, den |-> 1]

\* ResultStore entries
NoEntry == [st |-> "none", status |-> 0]
\* Mutant: the placeholder is an absent entry.
buildLoadingStateAbsent == [st |-> "none", status |-> 0]

buildLoadingState == [st |-> "loading", status |-> 0]
buildSuccessState == [st |-> "success", status |-> 0]
\* Mutant: the error entry loses the status of the error.
buildErrorStateNoStatus(errorStatus) == [st |-> "error", status |-> 0]

buildErrorState(errorStatus) == [st |-> "error", status |-> errorStatus]

\* Fetch outcomes: success, or an error without or with a status code (0
\* stands for no status, 429 for any status getErrorStatus can derive).
Outcomes == {[ok |-> TRUE, status |-> 0], [ok |-> FALSE, status |-> 0],
             [ok |-> FALSE, status |-> 429]}

\* A callback that throws: the n-th call of the store setter or of the
\* progress sink within one step.  NoFault: nothing throws.
NoFault == [kind |-> "none", n |-> 0]
FaultPoints == {[kind |-> k, n |-> n] : k \in {"store", "sink"}, n \in 1..2}

\* ---------------------------------------------------------------- inputs
\* The file lists the server can return: unique names, in order.
FileLists == {[i \in 1..n |-> i] : n \in 0..MaxTasks}

\* The task lists a caller can pass: those, and one with a repeated name.
TaskLists == FileLists \cup {<<1, 1>>}

\* The concurrency options a caller can pass: undefined, NaN, +-Infinity,
\* the halves from -1/2 to 5/2 and the largest value the section passes.
ConcInputs == {Special("undefined"), Special("nan"), Special("inf"), Special("ninf"),
               Num(-1, 2), Num(0, 2), Num(1, 2), Num(2, 2), Num(3, 2), Num(4, 2),
               Num(5, 2), Num(MAX_REFRESH_CONCURRENCY, 1)}

\* ---------------------------------------------------------------- loadQuota
Snapshot(r) == [total |-> r.total, completed |-> r.completed, success |-> r.success,
                failed |-> r.failed, stopped |-> r.stopped]

Fetching(i) == [st |-> "fetching", idx |-> i]
Exited == [st |-> "exited", idx |-> -1]
Faulted == [st |-> "faulted", idx |-> -1]
NotStarted == [st |-> "new", idx |-> -1]

\* Whether the next call of callback `kind` in this step is the one that throws.
Throws(s, fault, kind) ==
  /\ fault.kind = kind
  /\ (IF kind = "store" THEN s.nStore ELSE s.nSink) + 1 = fault.n

Thrown(s, kind) == IF kind = "store" THEN [s EXCEPT !.nStore = @ + 1]
                   ELSE [s EXCEPT !.nSink = @ + 1]

setQuota(s, name, entry) == [s EXCEPT !.quota[name] = entry, !.nStore = @ + 1]

\* Mutant: every snapshot is handed to the sink twice.
emitProgressTwice(s) ==
  [s EXCEPT !.run.log = Append(Append(@, Snapshot(s.run)), Snapshot(s.run)),
            !.nSink = @ + 1]

emitProgress(s) == [s EXCEPT !.run.log = Append(@, Snapshot(s.run)), !.nSink = @ + 1]

\* Mutant: the clamp loses its lower bound of 1.
EffectiveConcurrencyNoFloorOne(c, total) ==
  LET concurrencyRaw == IF c.kind = "undefined" THEN Num(total, 1) ELSE c
  IN IF concurrencyRaw.kind = "num"
     THEN Min(total, concurrencyRaw.num \div concurrencyRaw.den)
     ELSE 1

\* Number(options.concurrency ?? total), Number.isFinite, floor and clamp.
EffectiveConcurrency(c, total) ==
  LET concurrencyRaw == IF c.kind = "undefined" THEN Num(total, 1) ELSE c
  IN IF concurrencyRaw.kind = "num"
     THEN Max(1, Min(total, concurrencyRaw.num \div concurrencyRaw.den))
     ELSE 1

\* stale: requestId !== requestIdRef.current; flag: what options.shouldStop()
\* returns.  A caller that passes no predicate is one whose flag is never set.
shouldStop(stale, flag) == IF stale THEN TRUE ELSE flag

\* Mutant: a worker that leaves on a stop request always marks the run stopped.
stoppedOnExitAlways(r) == TRUE

\* stopped = completed < total, when a worker leaves on a stop request
stoppedOnExit(r) == r.completed < r.total

\* Mutant: the cursor test is off by one.
exhaustedEarly(r) == r.nextIndex + 1 >= r.total

\* currentIndex >= total: nothing left to claim
exhausted(r) == r.nextIndex >= r.total

\* Mutant: the cursor is advanced past a task that was not claimed.
claimSkipsOne(r, k) == [r EXCEPT !.nextIndex = @ + 2,
                                 !.claimLog = Append(@, [idx |-> r.nextIndex, by |-> k])]

\* Mutant: the cursor is not advanced.
claimNoAdvance(r, k) == [r EXCEPT !.claimLog = Append(@, [idx |-> r.nextIndex, by |-> k])]

\* nextIndex += 1 (claimLog is the history of the claims)
claim(r, k) == [r EXCEPT !.nextIndex = @ + 1,
                         !.claimLog = Append(@, [idx |-> r.nextIndex, by |-> k])]

\* Mutant: a failure is not counted.
countResultDropFailed(r, ok) == IF ok THEN [r EXCEPT !.success = @ + 1] ELSE r

\* success += 1 or failed += 1
countResult(r, ok) == IF ok THEN [r EXCEPT !.success = @ + 1]
                      ELSE [r EXCEPT !.failed = @ + 1]

\* The history of the stop predicate: whether it ever returned true in this run.
Saw(s, b) == [s EXCEPT !.run.sawStop = @ \/ b]

\* One pass of a worker from the top of its loop to its next await or return.
workerLoop(s, k, stale, flag, fault) ==
  IF shouldStop(stale, flag)
  THEN [Saw(s, TRUE) EXCEPT !.run.stopped = stoppedOnExit(s.run),
                            !.run.wk[k] = Exited,
                            !.run.stopExits = @ + 1]
  ELSE IF exhausted(s.run)
  THEN [s EXCEPT !.run.wk[k] = Exited]
  ELSE LET currentIndex == s.run.nextIndex
           file == s.run.targets[currentIndex + 1]
           s1 == [s EXCEPT !.run = claim(s.run, k)]
       IN IF Throws(s1, fault, "store")
          THEN [Thrown(s1, "store") EXCEPT !.run.wk[k] = Faulted]
          ELSE [setQuota(s1, file, buildLoadingState)
                  EXCEPT !.run.wk[k] = Fetching(currentIndex)]

\* The history of the terminal writes: the task, the outcome of its fetch and
\* the entry its name has right after the write.
Settled(i, out, entry) == [idx |-> i, out |-> out, entry |-> entry]

\* A worker resumes after its fetch settled with `out`.
workerResume(s, k, stale, flag, out, fault) ==
  IF stale THEN [s EXCEPT !.run.wk[k] = Exited, !.run.dropped = @ + 1]
  ELSE
    LET name == s.run.targets[s.run.wk[k].idx + 1]
        s1 == [s EXCEPT !.run = countResult(s.run, out.ok)]
    IN IF Throws(s1, fault, "store")
       THEN [Thrown(s1, "store") EXCEPT !.run.wk[k] = Faulted]
       ELSE
         LET s2 == setQuota(s1, name, IF out.ok THEN buildSuccessState
                                      ELSE buildErrorState(out.status))
             s3 == [s2 EXCEPT !.run.completed = @ + 1,
                              !.run.settleLog = Append(@, Settled(s.run.wk[k].idx, out,
                                                                  s2.quota[name]))]
             s4 == [Saw(s3, shouldStop(FALSE, flag)) EXCEPT !.run.stopped =
                      shouldStop(FALSE, flag) /\ s3.run.completed < s3.run.total]
         IN IF Throws(s4, fault, "sink")
            THEN [Thrown(s4, "sink") EXCEPT !.run.wk[k] = Faulted]
            ELSE workerLoop(emitProgress(s4), k, FALSE, flag, fault)

\* Mutant: the finally block reports but leaves the guard set.
finallyKeepGuard(s, stale) ==
  IF stale THEN s
  ELSE [s EXCEPT !.run.nFalse = @ + 1,
                 !.sectionLoading = [loading |-> FALSE, scope |-> "null"]]

\* finally: only a run whose token is current reports and releases the guard.
finally(s, stale) ==
  IF stale THEN s
  ELSE [s EXCEPT !.run.nFalse = @ + 1,
                 !.sectionLoading = [loading |-> FALSE, scope |-> "null"],
                 !.loadingRef = FALSE]

\* await Promise.all(workers), the final snapshot and the finally block.
promiseAll(s, stale, flag, fault) ==
  IF s.run.settled # "pending" THEN s
  ELSE IF \E k \in 1..s.run.nworkers : s.run.wk[k] = Faulted
  THEN finally([s EXCEPT !.run.settled = "rejected"], stale)
  ELSE IF \A k \in 1..s.run.nworkers : s.run.wk[k] = Exited
  THEN LET s1 == [Saw(s, ~s.run.stopped /\ flag) EXCEPT !.run.stopped =
                    @ \/ (flag /\ s.run.completed < s.run.total)]
       IN IF Throws(s1, fault, "sink")
          THEN finally([Thrown(s1, "sink") EXCEPT !.run.settled = "rejected"], stale)
          ELSE finally([emitProgress(s1) EXCEPT !.run.settled = "resolved"], stale)
  ELSE s

\* Array.from({length: concurrency}, async () => ...): each worker runs to its
\* first await before the next one starts.
RECURSIVE launch(_, _, _, _)
launch(s, k, flag, fault) ==
  IF k > s.run.nworkers THEN s
  ELSE launch(workerLoop(s, k, FALSE, flag, fault), k + 1, flag, fault)

\* Mutant: no snapshot before the workers start.
initialEmitSkipped(s) == s

\* emitProgress() before the workers start
initialEmit(s) == emitProgress(s)

\* The body of an accepted loadQuota call, up to its first suspension.
loadQuotaBody(targets, scope, conc, caller, flag, fault) ==
  LET total == Len(targets)
      r0 == [targets |-> targets, total |-> total, completed |-> 0, success |-> 0,
             failed |-> 0, nextIndex |-> 0, stopped |-> FALSE,
             conc |-> conc, caller |-> caller,
             nworkers |-> 0, wk |-> <<>>, settled |-> "pending",
             log |-> <<>>, claimLog |-> <<>>, nTrue |-> 1, nFalse |-> 0,
             stopExits |-> 0, sawStop |-> FALSE, stopAt |-> -1, dropped |-> 0,
             settleLog |-> <<>>]
      s0 == [run |-> r0, quota |-> quota, loadingRef |-> TRUE,
             sectionLoading |-> [loading |-> TRUE, scope |-> scope],
             nStore |-> 0, nSink |-> 0]
  IN IF Throws(s0, fault, "sink")
     THEN finally([Thrown(s0, "sink") EXCEPT !.run.settled = "rejected"], FALSE)
     ELSE
       LET s1 == initialEmit(s0)
       IN IF total = 0
          THEN finally([s1 EXCEPT !.run.settled = "resolved"], FALSE)
          ELSE LET concurrency == EffectiveConcurrency(conc, total)
                   s2 == [s1 EXCEPT !.run.nworkers = concurrency,
                                    !.run.wk = [k \in 1..concurrency |-> NotStarted]]
               IN promiseAll(launch(s2, 1, flag, fault), FALSE, flag, fault)

\* ---------------------------------------------------------------- state
NoProgress == Null
NoPending == Null
Idle == [loading |-> FALSE, scope |-> "null"]

Last(seq) == seq[Len(seq)]

InFlight(r) == \E k \in 1..r.nworkers : r.wk[k].st = "fetching"

\* The state a step of run `id` starts from.
StepState(r) == [run |-> r, quota |-> quota, loadingRef |-> loadingRef,
                 sectionLoading |-> sectionLoading, nStore |-> 0, nSink |-> 0]

\* The run record a call starts from, for comparing before and after.
Fresh == [settled |-> "pending", log |-> <<>>]

\* onProgress: (progress) => setRefreshProgress(progress)
onProgress(before, s) ==
  IF s.run.caller = "section" /\ Len(s.run.log) > Len(before.log)
  THEN Last(s.run.log) ELSE refreshProgress

\* Mutant: the code after the caller's await never runs.
ReturnedNever(before, s) == FALSE

\* The caller's await of loadQuota returned in this step (it does not when
\* loadQuota throws).
Returned(before, s) ==
  /\ s.run.caller = "section"
  /\ before.settled = "pending"
  /\ s.run.settled = "resolved"

Init ==
  /\ loadingRef = FALSE
  /\ requestIdRef = 0
  /\ runs = <<>>
  /\ quota = [n \in Names |-> NoEntry]
  /\ calls = 0
  /\ files \in FileLists
  /\ filesLoading \in BOOLEAN
  /\ prevFilesLoadingRef = filesLoading
  /\ pendingQuotaRefreshRef = NoPending
  /\ stopRefreshRef = FALSE
  /\ refreshProgress = NoProgress
  /\ refreshModalOpen = FALSE
  /\ sectionLoading = Idle
  /\ notices = 0
  /\ requests = [n |-> 0, scope |-> "null", concurrency |-> 0]

\* Mutant: no result is ever seen as stale.
isStaleNever(id) == FALSE

\* requestId !== requestIdRef.current
isStale(id) == id # requestIdRef

\* Mutant: the guard is never seen as taken.
BusyNever == FALSE

\* if (loadingRef.current) return
Busy == loadingRef

\* A worker's fetch settles and the worker runs on to its next await or return.
Resume(id, k, out, fault) ==
  /\ id \in DOMAIN runs
  /\ k \in 1..runs[id].nworkers
  /\ runs[id].wk[k].st = "fetching"
  /\ LET before == runs[id]
         stale == isStale(id)
     IN \E s \in {promiseAll(workerResume(StepState(before), k, stale, stopRefreshRef,
                                      out, fault),
                         stale, stopRefreshRef, fault)} :
        /\ runs' = [runs EXCEPT ![id] = s.run]
        /\ quota' = s.quota
        /\ loadingRef' = s.loadingRef
        /\ sectionLoading' = s.sectionLoading
        /\ refreshProgress' = onProgress(before, s)
        /\ notices' = IF Returned(before, s) /\ stopRefreshRef THEN notices + 1
                      ELSE notices
        /\ stopRefreshRef' = IF Returned(before, s) THEN FALSE ELSE stopRefreshRef
  /\ UNCHANGED <<requestIdRef, calls, files, filesLoading, prevFilesLoadingRef,
                 pendingQuotaRefreshRef, refreshModalOpen, requests>>

Settle(id, k, out) == Resume(id, k, out, NoFault)

\* The prune effect's setQuota: only the entries of the listed names stay.
Pruned(q, keepNames) == [n \in Names |-> IF n \in keepNames THEN q[n] ELSE NoEntry]

\* Mutant: the counter is advanced twice.
nextRequestIdTwice == requestIdRef + 2

\* const requestId = ++requestIdRef.current
nextRequestId == requestIdRef + 1

\* loadQuota enters its body: the guard was free.
Accept(targets, scope, conc, caller, fault, keepNames) ==
  /\ ~Busy
  /\ LET requestId == nextRequestId
         keep == {i \in DOMAIN runs : InFlight(runs[i])}
     IN \E s \in {loadQuotaBody(targets, scope, conc, caller, stopRefreshRef, fault)} :
        /\ requestIdRef' = requestId
        /\ runs' = [i \in keep \cup {requestId} |->
                      IF i = requestId THEN s.run ELSE runs[i]]
        /\ quota' = Pruned(s.quota, keepNames)
        /\ loadingRef' = s.loadingRef
        /\ sectionLoading' = s.sectionLoading
        /\ refreshProgress' = onProgress(Fresh, s)
        /\ notices' = IF Returned(Fresh, s) /\ stopRefreshRef THEN notices + 1
                      ELSE notices
        /\ stopRefreshRef' = IF Returned(Fresh, s) THEN FALSE ELSE stopRefreshRef

\* Mutant: the token is taken before the guard is tested.
RejectAfterToken ==
  /\ Busy
  /\ requestIdRef' = requestIdRef + 1
  /\ UNCHANGED <<loadingRef, runs, sectionLoading>>

\* loadQuota returns at once: a run is active.
Reject ==
  /\ Busy
  /\ UNCHANGED <<loadingRef, requestIdRef, runs, sectionLoading>>

\* loadQuota called by some user of the hook, with any task list and options.
Invoke(concs, fault) ==
  /\ calls < MaxCalls
  /\ calls' = calls + 1
  /\ \/ Reject /\ UNCHANGED <<quota, refreshProgress, notices, stopRefreshRef>>
     \/ \E targets \in TaskLists, conc \in concs :
          Accept(targets, "all", conc, "direct", fault, Names)
  /\ UNCHANGED <<files, filesLoading, prevFilesLoadingRef, pendingQuotaRefreshRef,
                 refreshModalOpen, requests>>

Call == Invoke(ConcInputs, NoFault)

\* The state the caller's stop predicate reads changes.
SetStop(b) ==
  /\ stopRefreshRef # b
  /\ stopRefreshRef' = b
  /\ UNCHANGED <<loaderVars, sectionVars, sectionLoading>>

InitLoader == Init /\ files = <<>> /\ filesLoading = FALSE

NextLoader ==
  \/ Call
  \/ \E id \in 1..MaxCalls, k \in 1..MaxTasks, out \in Outcomes : Settle(id, k, out)
  \/ \E b \in BOOLEAN : SetStop(b)

SpecLoader == InitLoader /\ [][NextLoader]_vars

\* ---------------------------------------------------------------- QuotaSection
Range(f) == {f[i] : i \in DOMAIN f}

\* items.slice(start, start + pageSize) on the first page; every page size
\* on offer is at least DEFAULT_PAGE_SIZE.
pageItems(f) == SubSeq(f, 1, Min(Len(f), DEFAULT_PAGE_SIZE))

refreshRunning ==
  /\ refreshProgress # NoProgress
  /\ refreshProgress.total > 0
  /\ refreshProgress.completed < refreshProgress.total
  /\ ~refreshProgress.stopped

\* The title of the progress banner; "hidden" when the banner is not rendered.
bannerTitle ==
  IF refreshProgress = NoProgress THEN "hidden"
  ELSE IF refreshProgress.total <= 0 THEN "hidden"
  ELSE IF refreshRunning THEN "refreshing"
  ELSE IF refreshProgress.stopped THEN "refresh_stopped"
  ELSE "refresh_completed"

isRefreshing == sectionLoading.loading \/ filesLoading \/ refreshRunning

\* What the operator can type into the concurrency field: text that is no
\* number, 0, 1, 1.5 and a number above the cap.
TypedInputs == {Special("nan"), Num(0, 1), Num(1, 1), Num(3, 2),
                Num(MAX_REFRESH_CONCURRENCY + 1, 1)}

\* Number.parseInt(text, 10): the integer part, NaN for no number.
parseInt(text) ==
  IF text.kind # "num" THEN Special("nan")
  ELSE IF text.num >= 0 THEN Num(text.num \div text.den, 1)
  ELSE Num(-((-text.num) \div text.den), 1)

\* parseRefreshConcurrency: 0 stands for null.
parseRefreshConcurrency(text) ==
  LET parsed == parseInt(text)
  IN IF parsed.kind # "num" \/ parsed.num <= 0 THEN 0
     ELSE Min(parsed.num, MAX_REFRESH_CONCURRENCY)

\* handleOpenRefreshModal: the button is disabled while isRefreshing.
OpenModal ==
  /\ ~isRefreshing
  /\ ~refreshModalOpen
  /\ refreshModalOpen' = TRUE
  /\ UNCHANGED <<loaderVars, files, filesLoading, prevFilesLoadingRef,
                 pendingQuotaRefreshRef, stopRefreshRef, refreshProgress,
                 sectionLoading, notices, requests>>

\* The modal's cancel button or onClose.
CloseModal ==
  /\ refreshModalOpen
  /\ refreshModalOpen' = FALSE
  /\ UNCHANGED <<loaderVars, files, filesLoading, prevFilesLoadingRef,
                 pendingQuotaRefreshRef, stopRefreshRef, refreshProgress,
                 sectionLoading, notices, requests>>

\* Mutant: a request does not replace the one the slot holds.
PendingRequestFirstWins(scope, concurrency) ==
  IF pendingQuotaRefreshRef = NoPending
  THEN [scope |-> scope, concurrency |-> concurrency, nth |-> 1]
  ELSE [pendingQuotaRefreshRef EXCEPT !.nth = 2]

\* { scope, concurrency }; nth is the history of how many requests were
\* written into the slot since it was last empty (2 stands for two or more).
PendingRequest(scope, concurrency) ==
  [scope |-> scope, concurrency |-> concurrency,
   nth |-> IF pendingQuotaRefreshRef = NoPending THEN 1 ELSE 2]

\* handleStartRefresh(scope), from one of the modal's two buttons.
StartRefresh(scope, text) ==
  /\ refreshModalOpen
  /\ calls < MaxCalls
  /\ requests.n < MaxRequests
  /\ LET concurrency == parseRefreshConcurrency(text)
     IN IF concurrency = 0
        THEN UNCHANGED <<pendingQuotaRefreshRef, stopRefreshRef, refreshProgress,
                         refreshModalOpen, requests>>
        ELSE /\ pendingQuotaRefreshRef' = PendingRequest(scope, concurrency)
             /\ requests' = [n |-> requests.n + 1, scope |-> scope,
                              concurrency |-> concurrency]
             /\ stopRefreshRef' = FALSE
             /\ refreshProgress' = NoProgress
             /\ refreshModalOpen' = FALSE
  /\ UNCHANGED <<loaderVars, files, filesLoading, prevFilesLoadingRef,
                 sectionLoading, notices>>

\* handleStopRefresh: the stop button is shown while refreshRunning.  stopAt
\* is the history of how many tasks were claimed at the first stop of a run.
StopRefresh ==
  /\ refreshRunning
  /\ stopRefreshRef' = TRUE
  /\ runs' = [id \in DOMAIN runs |->
                IF runs[id].settled = "pending" /\ runs[id].stopAt = -1
                THEN [runs[id] EXCEPT !.stopAt = runs[id].nextIndex]
                ELSE runs[id]]
  /\ UNCHANGED <<loadingRef, requestIdRef, quota, calls, sectionVars, sectionLoading>>

\* Mutant: the effect does not look at the previous value of the flag.
fallingEdgeAnyRender(pendingRefresh, l, wasLoading) ==
  pendingRefresh # NoPending /\ ~l

\* The three early returns of the pending-refresh effect.
fallingEdge(pendingRefresh, l, wasLoading) ==
  pendingRefresh # NoPending /\ ~l /\ wasLoading

\* Mutant: an empty target list is passed on.
emptyTargetsIgnored(targets) == FALSE

\* if (targets.length === 0) return
emptyTargets(targets) == Len(targets) = 0

\* A render with new props: the pending-refresh effect, then the prune effect.
Render(l, f) ==
  /\ filesLoading' = l
  /\ files' = f
  /\ prevFilesLoadingRef' = l
  /\ UNCHANGED <<refreshModalOpen, requests>>
  /\ LET wasLoading == prevFilesLoadingRef
         pendingRefresh == pendingQuotaRefreshRef
         consume == fallingEdge(pendingRefresh, l, wasLoading)
         targets == IF pendingRefresh.scope = "all" THEN f ELSE pageItems(f)
         keepNames == IF l THEN Names ELSE Range(f)
     IN IF ~consume \/ emptyTargets(targets)
        THEN /\ pendingQuotaRefreshRef' = IF consume THEN NoPending ELSE pendingRefresh
             /\ quota' = Pruned(quota, keepNames)
             /\ UNCHANGED <<loadingRef, requestIdRef, runs, calls, sectionLoading,
                            refreshProgress, notices, stopRefreshRef>>
        ELSE /\ pendingQuotaRefreshRef' = NoPending
             /\ calls' = calls + 1
             /\ \/ /\ Reject
                   /\ quota' = Pruned(quota, keepNames)
                   /\ notices' = IF stopRefreshRef THEN notices + 1 ELSE notices
                   /\ stopRefreshRef' = FALSE
                   /\ UNCHANGED refreshProgress
                \/ Accept(targets, pendingRefresh.scope,
                          Num(pendingRefresh.concurrency, 1), "section", NoFault,
                          keepNames)

\* The file list starts to load, finishes loading (with any list), or
\* changes while the flag stays as it is.
FilesLoadingBegin == ~filesLoading /\ Render(TRUE, files)

FilesLoadingEnd == filesLoading /\ \E f \in FileLists : Render(FALSE, f)

FilesChange == \E f \in FileLists \ {files} : Render(filesLoading, f)

Next ==
  \/ OpenModal
  \/ CloseModal
  \/ \E scope \in {"page", "all"}, text \in TypedInputs : StartRefresh(scope, text)
  \/ StopRefresh
  \/ FilesLoadingBegin
  \/ FilesLoadingEnd
  \/ FilesChange
  \/ \E id \in 1..MaxCalls, k \in 1..MaxTasks, out \in Outcomes : Settle(id, k, out)

Spec == Init /\ [][Next]_vars

\* The concurrency options that give each number of workers: all at once
\* (undefined), one, two.
WorkerCounts == {Special("undefined"), Num(1, 1), Num(2, 1)}

\* The same, with a store setter or a progress sink that may throw.
CallFault == \E fault \in FaultPoints \cup {NoFault} : Invoke(WorkerCounts, fault)

SettleFault ==
  \E id \in 1..MaxCalls, k \in 1..MaxTasks, out \in Outcomes, fault \in FaultPoints :
    Resume(id, k, out, fault)

NextFault ==
  \/ CallFault
  \/ SettleFault
  \/ \E id \in 1..MaxCalls, k \in 1..MaxTasks, out \in Outcomes : Settle(id, k, out)
  \/ \E b \in BOOLEAN : SetStop(b)

SpecFault == InitLoader /\ [][NextFault]_vars

\* Every fetch eventually settles.
SpecLoaderFair ==
  SpecLoader /\ WF_vars(\E id \in 1..MaxCalls, k \in 1..MaxTasks, out \in Outcomes :
                          Settle(id, k, out))

\* ---------------------------------------------------------------- claims
Ended(r) == r.settled # "pending"
Resolved(r) == r.settled = "resolved"

\* C1: every published snapshot has 0 <= completed <= total and
\* success + failed = completed.
InvC1 ==
  \A id \in DOMAIN runs : \A i \in DOMAIN runs[id].log :
    LET p == runs[id].log[i]
    IN /\ p.total = Len(runs[id].targets)
       /\ 0 <= p.completed /\ p.completed <= p.total
       /\ p.success + p.failed = p.completed

\* Two workers, and a snapshot that counts a success and a failure.
WitC1 ==
  \E id \in DOMAIN runs : \E i \in DOMAIN runs[id].log :
    /\ runs[id].nworkers >= 2
    /\ runs[id].log[i].success >= 1
    /\ runs[id].log[i].failed >= 1

\* C2: a loadQuota call made while a run is active changes nothing: not the
\* guard, the generation, the runs (their progress and reporter calls), the
\* ResultStore or the reported loading state.
PropC2 ==
  [][(calls' = calls + 1 /\ loadingRef)
       => UNCHANGED <<loadingRef, requestIdRef, runs, quota, sectionLoading,
                      refreshProgress>>]_vars

\* A call was turned away and the run it found is still fetching.
WitC2 ==
  /\ calls > requestIdRef
  /\ loadingRef
  /\ \E id \in DOMAIN runs : InFlight(runs[id])

\* C4: the number of workers launched for a task list of length T >= 1 and a
\* concurrency input C is min(max(1, floor(C)), T), and 1 when C is not finite.
ClaimedWorkers(c, T) ==
  IF c.kind = "num" THEN Min(Max(1, c.num \div c.den), T) ELSE 1

InvC4 ==
  \A id \in DOMAIN runs :
    LET r == runs[id]
    IN (r.total >= 1 /\ r.conc.kind # "undefined")
         => /\ Len(r.wk) = ClaimedWorkers(r.conc, r.total)
            /\ \A k \in DOMAIN r.wk : r.wk[k] # NotStarted

\* A fractional input above 2 gave two workers, or a non-finite one gave one.
WitC4 ==
  \E id \in DOMAIN runs :
    /\ runs[id].total = 2
    /\ \/ runs[id].conc = Num(5, 2) /\ Len(runs[id].wk) = 2
       \/ runs[id].conc = Special("inf") /\ Len(runs[id].wk) = 1

\* C5: when every fetch settles the run ends, and if the stop predicate never
\* returned true its final snapshot has completed = T and stopped = false.
FinalC5 ==
  \A id \in DOMAIN runs :
    LET r == runs[id]
    IN (Resolved(r) /\ ~r.sawStop)
         => /\ Last(r.log).completed = r.total
            /\ Last(r.log).stopped = FALSE

LiveC5 == (loadingRef ~> ~loadingRef) /\ []FinalC5

\* A run of two tasks ended without any stop request.
WitC5 ==
  \E id \in DOMAIN runs :
    /\ Resolved(runs[id]) /\ ~runs[id].sawStop
    /\ runs[id].total = 2 /\ Last(runs[id].log).completed = 2

\* C6: the indices are claimed in the order 0, 1, 2, ..., each once, and a run
\* that ends without a worker leaving on a stop request has claimed all of them.
InvC6 ==
  \A id \in DOMAIN runs :
    LET r == runs[id]
    IN /\ \A i \in DOMAIN r.claimLog : r.claimLog[i].idx = i - 1
       /\ Len(r.claimLog) <= r.total
       /\ \A k \in DOMAIN r.wk :
            r.wk[k].st = "fetching" =>
              Cardinality({i \in DOMAIN r.claimLog : r.claimLog[i].idx = r.wk[k].idx}) = 1
       /\ (Resolved(r) /\ r.stopExits = 0) => Len(r.claimLog) = r.total

\* Two workers each claimed a task of a run that ran to its end.
WitC6 ==
  \E id \in DOMAIN runs :
    /\ runs[id].nworkers = 2
    /\ Len(runs[id].claimLog) = 2
    /\ runs[id].claimLog[1].by # runs[id].claimLog[2].by
    /\ Resolved(runs[id])

\* C8: the final snapshot has stopped = true exactly when completed < total.
InvC8 ==
  \A id \in DOMAIN runs :
    LET r == runs[id]
    IN (Resolved(r) /\ r.total >= 1)
         => (Last(r.log).stopped <=> Last(r.log).completed < r.total)

\* A stop request that came after every task was claimed: not stopped.
WitC8 ==
  \E id \in DOMAIN runs :
    /\ Resolved(runs[id]) /\ runs[id].sawStop
    /\ runs[id].total = 2
    /\ Last(runs[id].log).completed = 2
    /\ Last(runs[id].log).stopped = FALSE

\* C9 as stated: every run that ended published k + 2 snapshots, k the number
\* of tasks that reached a terminal state, the first being 0/total.
CexC9 ==
  \A id \in DOMAIN runs :
    LET r == runs[id]
    IN Ended(r) => /\ Len(r.log) = r.completed + 2
                   /\ r.log[1] = [total |-> r.total, completed |-> 0, success |-> 0,
                                  failed |-> 0, stopped |-> FALSE]

\* C9 amended: a run over a non-empty list publishes 0/total before any claim,
\* one snapshot per task that reached a terminal state and one more at its end
\* (k + 2); a run over an empty list publishes the 0/0 snapshot only.
InvC9 ==
  \A id \in DOMAIN runs :
    LET r == runs[id]
    IN /\ Len(r.log) >= 1
       /\ r.log[1] = [total |-> r.total, completed |-> 0, success |-> 0,
                      failed |-> 0, stopped |-> FALSE]
       /\ \A i \in 2..(r.completed + 1) : r.log[i].completed = i - 1
       /\ Len(r.log) = IF r.total = 0 THEN 1
                       ELSE IF Ended(r) THEN r.completed + 2
                       ELSE r.completed + 1

\* A run of two tasks ended with four snapshots.
WitC9 ==
  \E id \in DOMAIN runs :
    /\ Ended(runs[id]) /\ runs[id].completed = 2 /\ Len(runs[id].log) = 4

\* C3: when a fetch of a run that is no longer the current generation settles,
\* the ResultStore, that run's counters and snapshots, and the reported
\* progress and loading state stay as they are: the worker only leaves.
PropC3 ==
  [][\A id \in DOMAIN runs : \A k \in DOMAIN runs[id].wk :
       (/\ id # requestIdRef
        /\ runs[id].wk[k].st = "fetching"
        /\ id \in DOMAIN runs'
        /\ runs'[id].wk[k].st # "fetching")
       => /\ quota' = quota
          /\ runs'[id] = [runs[id] EXCEPT !.wk[k] = Exited, !.dropped = @ + 1]
          /\ refreshProgress' = refreshProgress
          /\ sectionLoading' = sectionLoading
          /\ loadingRef' = loadingRef]_vars

\* A fetch of a superseded run has settled while a newer run exists.
WitC3 ==
  \E id \in DOMAIN runs :
    /\ id < requestIdRef
    /\ runs[id].dropped >= 1

\* C10: every run reports loading(true) once; it reports loading(false) once,
\* when it ends, and not again afterwards; the guard is set exactly while the
\* current run has not ended, so a call after the end is accepted.
InvC10 ==
  /\ \A id \in DOMAIN runs :
       LET r == runs[id]
       IN /\ r.nTrue = 1
          /\ r.nFalse = IF Ended(r) THEN 1 ELSE 0
  /\ loadingRef <=> (requestIdRef \in DOMAIN runs /\ ~Ended(runs[requestIdRef]))
  /\ sectionLoading.loading = loadingRef

\* A run ended by a throwing callback released the guard, a second run was
\* accepted, and a late fetch of the first run settled without reporting again.
WitC10 ==
  \E id \in DOMAIN runs :
    /\ id < requestIdRef
    /\ runs[id].settled = "rejected"
    /\ runs[id].nFalse = 1
    /\ runs[id].dropped >= 1

\* The failing fetches a run has recorded.
Failures(r) == {i \in DOMAIN r.settleLog : ~r.settleLog[i].out.ok}

\* C11: a failing fetch writes error(status of the error) under the task's
\* name and adds one to failed and nothing to success; failed is always the
\* number of failing fetches recorded, and a run that saw no stop request ends
\* with every task settled, whatever number of them failed.
InvC11 ==
  \A id \in DOMAIN runs :
    LET r == runs[id]
    IN /\ \A i \in Failures(r) :
            /\ r.settleLog[i].entry = [st |-> "error", status |-> r.settleLog[i].out.status]
            /\ r.log[i + 1].failed = r.log[i].failed + 1
            /\ r.log[i + 1].success = r.log[i].success
            /\ r.log[i + 1].completed = r.log[i].completed + 1
       /\ r.failed = Cardinality(Failures(r))
       /\ (Resolved(r) /\ ~r.sawStop)
            => /\ r.completed = r.total
               /\ Len(r.settleLog) = r.total
               /\ \A i \in 1..r.total : \E j \in DOMAIN r.settleLog :
                    r.settleLog[j].idx = i - 1

\* A run of two tasks ended complete although its first fetch to settle
\* failed with a status code and the other succeeded.
WitC11 ==
  \E id \in DOMAIN runs :
    LET r == runs[id]
    IN /\ Resolved(r) /\ ~r.sawStop /\ r.total = 2
       /\ r.settleLog[1].out = [ok |-> FALSE, status |-> 429]
       /\ r.settleLog[2].out.ok
       /\ r.failed = 1 /\ r.completed = 2

\* C12: loadQuota is invoked only in a step in which the loading flag of the
\* file list goes from true to false while the slot holds a request; that step
\* empties the slot and passes the list (or its page slice) of that moment;
\* so there are never more invocations than requests.
PropC12 ==
  /\ [](calls <= requests.n)
  /\ [][calls' # calls =>
          /\ calls' = calls + 1
          /\ filesLoading /\ ~filesLoading'
          /\ pendingQuotaRefreshRef # NoPending
          /\ pendingQuotaRefreshRef' = NoPending
          /\ requestIdRef' # requestIdRef =>
               runs'[requestIdRef'].targets =
                 (IF pendingQuotaRefreshRef.scope = "all" THEN files'
                  ELSE SubSeq(files', 1, Min(Len(files'), DEFAULT_PAGE_SIZE)))]_vars

\* One request was consumed at a falling edge and started a run over the two
\* files listed at that moment.
WitC12 ==
  /\ requests.n = 1 /\ calls = 1
  /\ pendingQuotaRefreshRef = NoPending
  /\ ~filesLoading /\ Len(files) = 2
  /\ 1 \in DOMAIN runs
  /\ runs[1].caller = "section"
  /\ runs[1].targets = files

\* The slot is consumed in this step after a second request had replaced the
\* first one in it.
ConsumedSecond ==
  /\ pendingQuotaRefreshRef # NoPending
  /\ pendingQuotaRefreshRef' = NoPending
  /\ pendingQuotaRefreshRef.nth = 2

\* The invocation of this step carries the scope and concurrency of the slot.
CarriesSlot ==
  /\ calls' = calls + 1
  /\ requestIdRef' # requestIdRef =>
       /\ runs'[requestIdRef'].conc = Num(pendingQuotaRefreshRef.concurrency, 1)
       /\ sectionLoading'.loading => sectionLoading'.scope = pendingQuotaRefreshRef.scope

\* C13 as stated: the slot holds the latest request, and when it is consumed
\* after two requests there is exactly one invocation, with the scope and
\* concurrency of the second.
CexC13 == [][ConsumedSecond => CarriesSlot]_vars

\* C13 amended: the slot holds the latest request; when it is consumed after
\* two requests there is exactly one invocation, with the scope and
\* concurrency of the second, if the list resolved for it is not empty, and
\* none if it is empty.
PropC13 ==
  /\ [](pendingQuotaRefreshRef # NoPending =>
          /\ pendingQuotaRefreshRef.scope = requests.scope
          /\ pendingQuotaRefreshRef.concurrency = requests.concurrency)
  /\ [][ConsumedSecond =>
          IF files' = <<>> THEN calls' = calls /\ requestIdRef' = requestIdRef
          ELSE CarriesSlot]_vars

\* Two requests were made before the list finished loading, the second for
\* the page with concurrency 1000 (the cap); exactly one invocation
\* followed, and its run has the scope and concurrency of the second.
WitC13 ==
  /\ requests = [n |-> 2, scope |-> "page", concurrency |-> MAX_REFRESH_CONCURRENCY]
  /\ calls = 1
  /\ pendingQuotaRefreshRef = NoPending
  /\ 1 \in DOMAIN runs
  /\ runs[1].completed = 0
  /\ refreshProgress # NoProgress
  /\ runs[1].conc = Num(MAX_REFRESH_CONCURRENCY, 1)
  /\ sectionLoading = [loading |-> TRUE, scope |-> "page"]

CexC15 ==
  [][loadingRef' =>
       \A n \in Names : quota[n] # NoEntry => quota'[n] # NoEntry]_vars

\* Run id ends in this step with a final snapshot.
EndsNow(id) ==
  /\ id \in DOMAIN runs'
  /\ Resolved(runs'[id])
  /\ id \in DOMAIN runs => ~Ended(runs[id])

\* C16: when a run ends with stopped = true in its final snapshot, that step
\* shows the 'refresh stopped' notification once and leaves the banner on the
\* final snapshot with the title 'refresh stopped'.
PropC16 ==
  [][\A id \in 1..MaxCalls :
       (EndsNow(id) /\ Last(runs'[id].log).stopped)
         => /\ notices' = notices + 1
            /\ refreshProgress' = Last(runs'[id].log)
            /\ bannerTitle' = "refresh_stopped"]_vars

\* A run of two tasks ended stopped after one task, the notification was
\* shown and the banner says stopped.
WitC16 ==
  /\ notices = 1
  /\ bannerTitle = "refresh_stopped"
  /\ \E id \in DOMAIN runs :
       /\ Resolved(runs[id])
       /\ Last(runs[id].log) = refreshProgress
       /\ refreshProgress.completed = 1 /\ refreshProgress.total = 2

\* C17 as stated: after n invocations of loadQuota the generation counter has
\* advanced by n.
CexC17 == requestIdRef = calls

\* C17 amended: an invocation that finds the guard free advances the
\* generation counter by exactly one; an invocation rejected as re-entrant,
\* and every other step, leaves it as it is.
PropC17 ==
  [][IF calls' = calls + 1 /\ ~loadingRef
     THEN requestIdRef' = requestIdRef + 1
     ELSE requestIdRef' = requestIdRef]_vars

\* Two invocations, the second rejected while the first run was active: the
\* counter has advanced by one.
WitC17 ==
  /\ calls = 2
  /\ requestIdRef = 1
  /\ loadingRef

\* C18 as stated: an invocation made while a run has fetches in flight obtains
\* a new token.
CexC18 ==
  [][(calls' = calls + 1 /\ \E id \in DOMAIN runs : InFlight(runs[id]))
       => requestIdRef' = requestIdRef + 1]_vars

\* C18 amended: an invocation made while a run has fetches in flight is
\* rejected, with no new token and no effect on that run, as long as the run
\* is active; it is accepted, and obtains a new token, only when that run has
\* already ended on an internal fault.  From then on the fetches of the older
\* run settle without a write to the ResultStore, a count or a snapshot.
PropC18 ==
  [][\A id \in DOMAIN runs :
       InFlight(runs[id]) =>
         /\ calls' = calls + 1 =>
              /\ id \in DOMAIN runs' /\ runs'[id] = runs[id]
              /\ IF loadingRef
                 THEN requestIdRef' = requestIdRef /\ runs' = runs /\ quota' = quota
                 ELSE /\ requestIdRef' = requestIdRef + 1
                      /\ id < requestIdRef'
                      /\ runs[id].settled = "rejected"
         /\ id < requestIdRef =>
              /\ id \in DOMAIN runs'
              /\ Snapshot(runs'[id]) = Snapshot(runs[id])
              /\ runs'[id].log = runs[id].log
              /\ runs'[id].settleLog = runs[id].settleLog
              /\ runs'[id].nextIndex = runs[id].nextIndex
              /\ runs'[id] # runs[id] => quota' = quota]_vars

\* The first run ended on a fault with a fetch in flight, a second invocation
\* got token 2, the late fetch of run 1 was dropped, and run 2 completed.
WitC18 ==
  /\ requestIdRef = 2
  /\ 2 \in DOMAIN runs
  /\ Resolved(runs[2]) /\ runs[2].completed = runs[2].total /\ runs[2].total >= 1
  /\ 1 \in DOMAIN runs
  /\ runs[1].settled = "rejected"
  /\ runs[1].dropped >= 1
  /\ ~InFlight(runs[1])

\* C19 as stated: once a run has reported loading(false), no worker of it
\* claims a task, writes a result or publishes a snapshot.
CexC19 ==
  [][\A id \in DOMAIN runs :
       (runs[id].nFalse >= 1 /\ id \in DOMAIN runs')
         => /\ runs'[id].nextIndex = runs[id].nextIndex
            /\ runs'[id].settleLog = runs[id].settleLog
            /\ runs'[id].log = runs[id].log]_vars

\* The workers of a run that await a fetch.
FetchingWorkers(r) == {k \in 1..r.nworkers : r.wk[k].st = "fetching"}

\* C20: the tasks claimed and not yet settled are as many as the claims made
\* minus the completions counted, each is held by a worker of its own, and
\* they are at most min(max(1, floor(C)), T) (T when C is undefined); with one
\* worker a task is claimed only when all tasks before it have settled.
InvC20 ==
  \A id \in DOMAIN runs :
    LET r == runs[id]
        open == {r.claimLog[j].idx : j \in DOMAIN r.claimLog}
                  \ {r.settleLog[j].idx : j \in DOMAIN r.settleLog}
    IN r.total >= 1 =>
         /\ Cardinality(open) = r.nextIndex - r.completed
         /\ open = {r.wk[k].idx : k \in FetchingWorkers(r)}
         /\ Cardinality(FetchingWorkers(r)) = Cardinality(open)
         /\ Cardinality(open) <= (IF r.conc.kind = "undefined" THEN r.total
                                  ELSE ClaimedWorkers(r.conc, r.total))
         /\ r.nworkers = 1 => r.nextIndex <= r.completed + 1

\* With C = 0 and two tasks, the second task is in flight and the first has
\* settled.
WitC20 ==
  \E id \in DOMAIN runs :
    LET r == runs[id]
    IN /\ r.conc = Num(0, 2) /\ r.total = 2
       /\ r.nextIndex = 2 /\ r.completed = 1
       /\ r.wk[1] = Fetching(1)

\* The task list of a run has no name twice.
UniqueNames(r) ==
  \A i, j \in 1..r.total : r.targets[i] = r.targets[j] => i = j

\* C21: in a run over unique names with no pruning, the entry of a task whose
\* fetch is in flight is loading, the entry of a settled task is success or
\* error(status) as its fetch came out, so that no claimed task is left
\* loading when the run has ended; and no step changes the entry of a name
\* that is not the name of a claimed task.
PropC21 ==
  /\ [](\A id \in DOMAIN runs :
          LET r == runs[id]
          IN UniqueNames(r) =>
               /\ \A k \in FetchingWorkers(r) :
                    quota[r.targets[r.wk[k].idx + 1]] = [st |-> "loading", status |-> 0]
               /\ \A j \in DOMAIN r.settleLog :
                    LET e == r.settleLog[j]
                    IN /\ e.entry = quota[r.targets[e.idx + 1]]
                       /\ e.entry = (IF e.out.ok THEN [st |-> "success", status |-> 0]
                                     ELSE [st |-> "error", status |-> e.out.status])
               /\ Ended(r) =>
                    \A j \in DOMAIN r.claimLog :
                      quota[r.targets[r.claimLog[j].idx + 1]].st \in {"success", "error"})
  /\ [][\A n \in Names :
          quota'[n] # quota[n] =>
            \E id \in DOMAIN runs' : \E j \in DOMAIN runs'[id].claimLog :
              runs'[id].targets[runs'[id].claimLog[j].idx + 1] = n]_vars

\* A second run over two files was stopped after its first task: that task's
\* entry is the new result, and the entry of the task never claimed is still
\* the error the first run had left.
WitC21 ==
  /\ requestIdRef = 2
  /\ 2 \in DOMAIN runs
  /\ Resolved(runs[2])
  /\ runs[2].targets = <<1, 2>>
  /\ runs[2].nextIndex = 1 /\ runs[2].completed = 1
  /\ quota[1] = [st |-> "success", status |-> 0]
  /\ quota[2] = [st |-> "error", status |-> 429]

\* C22 as stated: the 'refresh stopped' notification is shown only in the
\* step in which a run ends with stopped = true in its final snapshot.
CexC22 ==
  [][notices' # notices =>
       \E id \in 1..MaxCalls : EndsNow(id) /\ Last(runs'[id].log).stopped]_vars

\* C23 as stated: a stop flag that is set stays set as long as the run is
\* active, whatever request is made or consumed meanwhile.
CexC23 ==
  [][(stopRefreshRef /\ loadingRef /\ loadingRef') => stopRefreshRef']_vars

\* C24 as stated: whenever the file list is not loading and no run is active,
\* every key of the ResultStore is the name of a listed file.
CexC24 ==
  (~filesLoading /\ ~loadingRef) =>
    \A n \in Names : quota[n] # NoEntry => n \in Range(files)

\* The counters of a snapshot, without its stopped flag.
Counters(p) == <<p.total, p.completed, p.success, p.failed>>

\* C25: in the snapshots of a run total never changes and completed, success
\* and failed never decrease; the snapshots after the first, one per settled
\* task, each have completed one higher than the one before; and the final
\* snapshot of a run over a non-empty list has the counters of the snapshot
\* before it.
InvC25 ==
  \A id \in DOMAIN runs :
    LET r == runs[id]
        n == Len(r.log)
        perTask == Len(r.settleLog)
    IN /\ n >= 1
       /\ r.log[1].completed = 0
       /\ \A i \in 1..(n - 1) :
            /\ r.log[i + 1].total = r.log[i].total
            /\ r.log[i + 1].completed >= r.log[i].completed
            /\ r.log[i + 1].success >= r.log[i].success
            /\ r.log[i + 1].failed >= r.log[i].failed
       /\ n >= 1 + perTask
       /\ \A i \in 1..perTask : r.log[i + 1].completed = r.log[i].completed + 1
       /\ (Resolved(r) /\ r.total >= 1) =>
            /\ n = perTask + 2
            /\ Counters(r.log[n]) = Counters(r.log[n - 1])

\* A run of two tasks ended after both settled: four snapshots with completed
\* 0, 1, 2, 2.
WitC25 ==
  \E id \in DOMAIN runs :
    LET r == runs[id]
    IN /\ Resolved(r)
       /\ Len(r.log) = 4
       /\ r.log[2].completed = 1 /\ r.log[3].completed = 2 /\ r.log[4].completed = 2

\* C7 as stated: once stop() was invoked during a run, no further index is
\* claimed, and the run ends with completed equal to the number of tasks that
\* had been claimed at that moment.
CexC7 ==
  [][\A id \in DOMAIN runs :
       (id \in DOMAIN runs' /\ runs[id].stopAt >= 0)
         => /\ runs'[id].nextIndex = runs[id].nextIndex
            /\ Resolved(runs'[id]) => runs'[id].completed = runs[id].stopAt]_vars

====
